---- MODULE Spec2Model ----
(***************************************************************************)
(* Contacts API (FastAPI + SQLAlchemy): user registration, e-mail          *)
(* confirmation, JWT access/refresh tokens and owner-scoped contacts.      *)
(* The store is the two tables users and contacts; every request handler   *)
(* is one action, except register, which is split at its await points so   *)
(* that concurrent registrations interleave.                               *)
(***************************************************************************)
EXTENDS Integers, Sequences, FiniteSets, TLC

\* ------------------------------------------------------------------ bounds
MaxUsers == 2
MaxTicks == 1
MaxContacts == 2

\* ------------------------------------------------------- program constants
\* src/src/conf/config.py:38  JWT_EXPIRATION_SECONDS: int = 3600
JWT_EXPIRATION_SECONDS == 3600
\* src/src/services/auth.py:97  timedelta(days=10), in seconds
RefreshTTL == 864000
\* src/src/services/auth.py:179  timedelta(days=7), in seconds
EmailTTL == 604800
\* src/src/database/models.py:47  birth_date = Column(Date): whole days
SecondsPerDay == 86400
\* src/src/repository/contacts.py:147  week = today + timedelta(days=7)
BirthdayWindowDays == 7
\* src/src/conf/config.py:36,49
JWT_SECRET == "secret_key"
JWT_REFRESH_SECRET == "secret_refresh_code"

\* ------------------------------------------------------------------ inputs
\* UserCreate.username and .email are plain str (schemas.py:89-94), so a
\* username may be the same string as somebody's e-mail address.
Usernames == {"ann", "a@x"}
Emails == {"a@x", "b@x"}
\* register bodies <<username, email, password>>: the first two can both be
\* stored; the third collides with the first on username and with the
\* second on e-mail
RegBodies == { <<"ann", "a@x", "p1">>, <<"a@x", "b@x", "p1">>, <<"ann", "b@x", "p1">> }
LoginPasswords == {"p1", "p2"}
\* concurrent register requests
Procs == {1, 2}
\* clock steps: to the next second, and past the longest token lifetime
TickSteps == {1, RefreshTTL + 1}

\* ------------------------------------------------------- response details
\* api/auth.py:51   "Користувач з таким email вже існує"
DetailEmailTaken == "Korystuvach z takym email vzhe isnuye"
\* api/auth.py:58   "Користувач з таким іменем вже існує"
DetailUsernameTaken == "Korystuvach z takym imenem vzhe isnuye"
\* api/auth.py:88   "Неправильний логін або пароль"
DetailBadLogin == "Nepravylnyi lohin abo parol"
\* api/auth.py:94   "Електронна адреса не підтверджена"
DetailNotConfirmed == "Elektronna adresa ne pidtverdzhena"
\* api/auth.py:123,153  "Ваша електронна пошта вже підтверджена"
MsgAlreadyConfirmed == "Vasha elektronna poshta vzhe pidtverdzhena"
\* api/auth.py:125  "Електронну пошту підтверджено"
MsgConfirmed == "Elektronnu poshtu pidtverdzheno"
\* api/auth.py:158  "Перевірте свою електронну пошту для підтвердження"
MsgCheckEmail == "Perevirte svoyu elektronnu poshtu dlya pidtverdzhennya"
\* api/auth.py:180  "Невалідний або прострочений refresh token"
DetailBadRefresh == "Nevalidnyi abo prostrochenyi refresh token"
\* services/auth.py:202  "Неправильний токен для перевірки електронної пошти"
DetailBadEmailToken == "Nepravylnyi token dlya perevirky elektronnoi poshty"
DetailVerification == "Verification error"
DetailCredentials == "Could not validate credentials"
DetailContactNotFound == "Contact not found"
DetailInternal == "Internal Server Error"

VARIABLES users, contacts, nextContactId, now, ticks, issued, outbox, reg,
          req, resp, eff, superseded, lastLogin, oldLogin

vars == <<users, contacts, nextContactId, now, ticks, issued, outbox, reg,
          req, resp, eff, superseded, lastLogin, oldLogin>>

\* ------------------------------------------------------------------ tokens
\* A JWT is determined by its claims and the key that signed it (HS256 is
\* deterministic): two tokens are the same string iff these agree.
\* token_type "" and iat -1 stand for an absent claim.
Encode(secret, sub, exp, token_type, iat) ==
    [secret |-> secret, sub |-> sub, exp |-> exp, token_type |-> token_type, iat |-> iat]

\* None where a token string is expected (User.refresh_token is nullable).
NoToken == Encode("", "", 0, "", -1)
\* A string that is no JWT of this service.
Garbage == Encode("garbage", "", 0, "", -1)

\* jwt.decode(token, key): signature check, then exp against the clock
\* (jose raises ExpiredSignatureError when exp < now).
DecodeOk(token, key, t) == token.secret = key /\ token.exp >= t

create_access_token(sub, t) ==
    Encode(JWT_SECRET, sub, t + JWT_EXPIRATION_SECONDS, "", -1)

\* faulty variant: the refresh token is signed with the access-token key
create_refresh_token_AccessKey(sub, t) ==
    Encode(JWT_SECRET, sub, t + RefreshTTL, "refresh", -1)

create_refresh_token(sub, t) ==
    Encode(JWT_REFRESH_SECRET, sub, t + RefreshTTL, "refresh", -1)

create_email_token(sub, t) ==
    Encode(JWT_SECRET, sub, t + EmailTTL, "", t)

\* ------------------------------------------------------------------- Hash
get_password_hash(password) == <<"bcrypt", password>>
verify_password(plain_password, hashed_password) ==
    hashed_password = get_password_hash(plain_password)

\* ------------------------------------------------------------- users table
\* faulty variant: confirmed defaults to True
User_ConfirmedByDefault(id, username, email, hashed_password, avatar) ==
    [id |-> id, username |-> username, email |-> email,
     hashed_password |-> hashed_password, avatar |-> avatar,
     confirmed |-> TRUE, refresh_token |-> NoToken]

User(id, username, email, hashed_password, avatar) ==
    [id |-> id, username |-> username, email |-> email,
     hashed_password |-> hashed_password, avatar |-> avatar,
     confirmed |-> FALSE, refresh_token |-> NoToken]

\* Look-ups return the row's id, 0 for None.
get_user_by_id(user_id) ==
    IF user_id \in DOMAIN users THEN user_id ELSE 0

get_user_by_username(username) ==
    LET S == {i \in DOMAIN users : users[i].username = username}
    IN IF S = {} THEN 0 ELSE CHOOSE i \in S : TRUE

get_user_by_email(email) ==
    LET S == {i \in DOMAIN users : users[i].email = email}
    IN IF S = {} THEN 0 ELSE CHOOSE i \in S : TRUE

\* faulty variant: the columns are not declared unique
UsersUniqueOk_NoConstraint(username, email) == TRUE

\* unique=True on users.username and users.email
UsersUniqueOk(username, email) ==
    \A i \in DOMAIN users : users[i].username # username /\ users[i].email # email

\* ------------------------------------------------------- requests, replies
NoContact ==
    [id |-> 0, user_id |-> 0, first_name |-> "", last_name |-> "", email |-> "",
     phone |-> "", birth_date |-> -1, additional_data |-> ""]

NoUserView == [id |-> 0, username |-> "", email |-> "", avatar |-> ""]
UserView(u) == [id |-> u.id, username |-> u.username, email |-> u.email, avatar |-> u.avatar]

Request(op, username, password, email, token, cid, body) ==
    [op |-> op, username |-> username, password |-> password, email |-> email,
     token |-> token, cid |-> cid, body |-> body,
     skip |-> 0, limit |-> 0, query |-> ""]

NoRequest == Request("", "", "", "", NoToken, 0, NoContact)

Response(status, detail, www, message, access_token, refresh_token, token_type, user, contact) ==
    [status |-> status, detail |-> detail, www |-> www, message |-> message,
     access_token |-> access_token, refresh_token |-> refresh_token,
     token_type |-> token_type, user |-> user, contact |-> contact,
     contacts |-> <<>>]

NoResponse == Response(0, "", FALSE, "", NoToken, NoToken, "", NoUserView, NoContact)
HTTPException(status, detail, www) ==
    Response(status, detail, www, "", NoToken, NoToken, "", NoUserView, NoContact)
Message(m) == Response(200, "", FALSE, m, NoToken, NoToken, "", NoUserView, NoContact)
TokenResponse(access, refresh) ==
    Response(200, "", FALSE, "", access, refresh, "bearer", NoUserView, NoContact)
UserResponse(status, u) ==
    Response(status, "", FALSE, "", NoToken, NoToken, "", UserView(u), NoContact)
ContactResponse(status, c) ==
    Response(status, "", FALSE, "", NoToken, NoToken, "", NoUserView, c)
\* response_model=List[ContactResponse]
ContactListResponse(cs) ==
    [Response(200, "", FALSE, "", NoToken, NoToken, "", NoUserView, NoContact)
        EXCEPT !.contacts = cs]
\* an exception no handler catches: the framework answers 500
Unhandled == HTTPException(500, DetailInternal, FALSE)

\* what the last handler did besides answering: commits that wrote, and
\* background tasks it scheduled
Effects(commits, tasks) == [commits |-> commits, tasks |-> tasks]

\* A process between requests. session is what was done to the database
\* session of its last request, exc the exception that request let out.
Idle == [pc |-> "idle", username |-> "", email |-> "", password |-> "",
         session |-> <<>>, exc |-> ""]

Init ==
    /\ users = <<>>
    /\ contacts = {}
    /\ nextContactId = 1
    /\ now = 0
    /\ ticks = 0
    /\ issued = {}
    /\ outbox = {}
    /\ reg = [p \in Procs |-> Idle]
    /\ req = NoRequest
    /\ resp = NoResponse
    /\ eff = Effects(0, 0)
    /\ superseded = {}
    /\ lastLogin = [u \in Usernames |-> NoToken]
    /\ oldLogin = {}

\* ------------------------------------------------------------------ clock
Tick(d) ==
    /\ ticks < MaxTicks
    /\ now' = now + d
    /\ ticks' = ticks + 1
    /\ UNCHANGED <<users, contacts, nextContactId, issued, outbox, reg, req, resp, eff,
                   superseded, lastLogin, oldLogin>>

\* ------------------------------------------------------- UserRepository
create_user(username, email, hashed_password, avatar) ==
    Append(users, User(Len(users) + 1, username, email, hashed_password, avatar))

repo_confirmed_email(email) ==
    [users EXCEPT ![get_user_by_email(email)].confirmed = TRUE]

update_avatar_url(email, url) ==
    [users EXCEPT ![get_user_by_email(email)].avatar = url]

\* faulty variant: the token is not written
set_refresh_token_NoWrite(user_id, refresh_token) == users

set_refresh_token(user_id, refresh_token) ==
    IF get_user_by_id(user_id) # 0
    THEN [users EXCEPT ![user_id].refresh_token = refresh_token]
    ELSE users

\* ------------------------------------------------ token verification
\* faulty variant: the presented token is not compared with the stored one
verify_refresh_token_NoStoredCompare(refresh_token) ==
    IF ~DecodeOk(refresh_token, JWT_REFRESH_SECRET, now) THEN 0
    ELSE IF refresh_token.sub = "" \/ refresh_token.token_type # "refresh" THEN 0
    ELSE LET user == get_user_by_username(refresh_token.sub)
         IN IF user = 0 THEN -1 ELSE user

\* The user's id; 0 for None; -1 when user.refresh_token is read on None
\* (AttributeError, which `except JWTError` does not catch).
verify_refresh_token(refresh_token) ==
    IF ~DecodeOk(refresh_token, JWT_REFRESH_SECRET, now) THEN 0
    ELSE IF refresh_token.sub = "" \/ refresh_token.token_type # "refresh" THEN 0
    ELSE LET user == get_user_by_username(refresh_token.sub)
         IN IF user = 0 THEN -1
            ELSE IF refresh_token # users[user].refresh_token THEN 0
            ELSE user

\* The user's id; 0 for credentials_exception (401); -1 when the payload has
\* no "sub" (payload["sub"] raises KeyError, which `except JWTError` does not
\* catch).
get_current_user(token) ==
    IF ~DecodeOk(token, JWT_SECRET, now) THEN 0
    ELSE IF token.sub = "" THEN -1
    ELSE get_user_by_username(token.sub)

\* payload["sub"] on a payload without "sub": KeyError, not a JWTError
NoSubject == "KeyError"

\* The e-mail; "" for the 422 HTTPException; NoSubject for the KeyError.
get_email_from_token(token) ==
    IF ~DecodeOk(token, JWT_SECRET, now) THEN ""
    ELSE IF token.sub = "" THEN NoSubject
    ELSE token.sub

\* Gravatar(body.email).get_image()
Gravatar(email) == "gravatar"

\* tokens a client can present: those the service handed out, or junk
Presentable == issued \cup {Garbage}

\* Every handler is a response (an operator of the store and the request)
\* and an action that records request and response and writes the store.

\* ------------------------------------------------- POST /auth/register
\* faulty variant: the username is looked up before the e-mail
register_user_UsernameFirst(username, email, password) ==
    IF get_user_by_username(username) # 0
    THEN HTTPException(409, DetailUsernameTaken, FALSE)
    ELSE IF get_user_by_email(email) # 0
    THEN HTTPException(409, DetailEmailTaken, FALSE)
    ELSE IF ~UsersUniqueOk(username, email)
    THEN Unhandled
    ELSE UserResponse(201, User(Len(users) + 1, username, email,
                                get_password_hash(password), Gravatar(email)))

register_user(username, email, password) ==
    IF get_user_by_email(email) # 0
    THEN HTTPException(409, DetailEmailTaken, FALSE)
    ELSE IF get_user_by_username(username) # 0
    THEN HTTPException(409, DetailUsernameTaken, FALSE)
    ELSE IF ~UsersUniqueOk(username, email)
    THEN Unhandled    \* IntegrityError on commit, rolled back by the session manager
    ELSE UserResponse(201, User(Len(users) + 1, username, email,
                                get_password_hash(password), Gravatar(email)))

\* The handler run without another request in between.
Register(username, email, password) ==
    /\ req' = Request("register", username, password, email, NoToken, 0, NoContact)
    /\ resp' = register_user(username, email, password)
    /\ IF resp'.status = 201
       THEN /\ users' = create_user(username, email, get_password_hash(password),
                                    Gravatar(email))
            /\ outbox' = outbox \cup {[email |-> email, username |-> username]}
            /\ eff' = Effects(1, 1)
       ELSE /\ eff' = Effects(0, 0)
            /\ UNCHANGED <<users, outbox>>
    /\ UNCHANGED <<contacts, nextContactId, now, ticks, issued, reg,
                   superseded, lastLogin, oldLogin>>

\* The same handler split at its awaits, one request per process p, inside
\* the database session get_db provides for the request.

\* except SQLAlchemyError
IsSQLAlchemyError(exc) == exc = "IntegrityError"

\* session = self._session_maker(); try: yield session
SessionEnter(p) ==
    /\ reg[p].pc = "idle"
    /\ reg' = [reg EXCEPT ![p] = [Idle EXCEPT !.pc = "handler", !.session = <<"open">>]]
    /\ UNCHANGED <<users, contacts, nextContactId, now, ticks, issued, outbox,
                   req, resp, eff, superseded, lastLogin, oldLogin>>

\* faulty variant: the store error passes without a rollback
SessionExcept_NoRollback(p) ==
    /\ reg[p].pc = "raised"
    /\ IsSQLAlchemyError(reg[p].exc)
    /\ reg' = [reg EXCEPT ![p].pc = "finally"]
    /\ UNCHANGED <<users, contacts, nextContactId, now, ticks, issued, outbox,
                   req, resp, eff, superseded, lastLogin, oldLogin>>

\* except SQLAlchemyError as e: await session.rollback(); raise
SessionExcept(p) ==
    /\ reg[p].pc = "raised"
    /\ IsSQLAlchemyError(reg[p].exc)
    /\ reg' = [reg EXCEPT ![p].pc = "finally",
                          ![p].session = Append(@, "rollback")]
    /\ UNCHANGED <<users, contacts, nextContactId, now, ticks, issued, outbox,
                   req, resp, eff, superseded, lastLogin, oldLogin>>

\* finally: await session.close(), after the handler returned, after the
\* except clause, or with an exception the except clause does not match
SessionFinally(p) ==
    /\ \/ reg[p].pc \in {"returned", "finally"}
       \/ reg[p].pc = "raised" /\ ~IsSQLAlchemyError(reg[p].exc)
    /\ reg' = [reg EXCEPT ![p] = [Idle EXCEPT !.session = Append(reg[p].session, "close"),
                                              !.exc = reg[p].exc]]
    /\ UNCHANGED <<users, contacts, nextContactId, now, ticks, issued, outbox,
                   req, resp, eff, superseded, lastLogin, oldLogin>>

\* await user_service.get_user_by_email(user_data.email)
RegisterLookupEmail(p, username, email, password) ==
    /\ reg[p].pc = "handler"
    /\ IF get_user_by_email(email) # 0
       THEN /\ req' = Request("register", username, password, email, NoToken, 0, NoContact)
            /\ resp' = HTTPException(409, DetailEmailTaken, FALSE)
            /\ eff' = Effects(0, 0)
            /\ reg' = [reg EXCEPT ![p].pc = "raised", ![p].exc = "HTTPException"]
       ELSE /\ reg' = [reg EXCEPT ![p].pc = "email_free", ![p].username = username,
                                  ![p].email = email, ![p].password = password]
            /\ UNCHANGED <<req, resp, eff>>
    /\ UNCHANGED <<users, contacts, nextContactId, now, ticks, issued, outbox,
                   superseded, lastLogin, oldLogin>>

\* await user_service.get_user_by_username(user_data.username)
RegisterLookupUsername(p) ==
    /\ reg[p].pc = "email_free"
    /\ IF get_user_by_username(reg[p].username) # 0
       THEN /\ req' = Request("register", reg[p].username, reg[p].password, reg[p].email,
                              NoToken, 0, NoContact)
            /\ resp' = HTTPException(409, DetailUsernameTaken, FALSE)
            /\ eff' = Effects(0, 0)
            /\ reg' = [reg EXCEPT ![p].pc = "raised", ![p].exc = "HTTPException"]
       ELSE /\ reg' = [reg EXCEPT ![p].pc = "username_free"]
            /\ UNCHANGED <<req, resp, eff>>
    /\ UNCHANGED <<users, contacts, nextContactId, now, ticks, issued, outbox,
                   superseded, lastLogin, oldLogin>>

\* hash, create_user (add + commit), add_task(send_email, ...), return
RegisterCreate(p) ==
    /\ reg[p].pc = "username_free"
    /\ req' = Request("register", reg[p].username, reg[p].password, reg[p].email,
                      NoToken, 0, NoContact)
    /\ IF UsersUniqueOk(reg[p].username, reg[p].email)
       THEN /\ Len(users) < MaxUsers
            /\ users' = create_user(reg[p].username, reg[p].email,
                                    get_password_hash(reg[p].password), Gravatar(reg[p].email))
            /\ outbox' = outbox \cup {[email |-> reg[p].email, username |-> reg[p].username]}
            /\ resp' = UserResponse(201, users'[Len(users')])
            /\ eff' = Effects(1, 1)
            /\ reg' = [reg EXCEPT ![p].pc = "returned"]
       ELSE \* IntegrityError on commit: nothing is written; the error leaves the
            \* handler and the framework answers 500
            /\ resp' = Unhandled
            /\ eff' = Effects(0, 0)
            /\ reg' = [reg EXCEPT ![p].pc = "raised", ![p].exc = "IntegrityError"]
            /\ UNCHANGED <<users, outbox>>
    /\ UNCHANGED <<contacts, nextContactId, now, ticks, issued, superseded, lastLogin, oldLogin>>

\* the background task send_email(email, username, host): mails a link that
\* carries create_email_token({"sub": email})
SendEmail(task) ==
    /\ task \in outbox
    /\ outbox' = outbox \ {task}
    /\ issued' = issued \cup {create_email_token(task.email, now)}
    /\ UNCHANGED <<users, contacts, nextContactId, now, ticks, reg, req, resp, eff,
                   superseded, lastLogin, oldLogin>>

\* ---------------------------------------------------- POST /auth/login
\* faulty variant: the confirmed flag is not checked
login_user_NoConfirmedCheck(username, password) ==
    LET user == get_user_by_username(username)
    IN IF user = 0 \/ ~verify_password(password, users[user].hashed_password)
       THEN HTTPException(401, DetailBadLogin, TRUE)
       ELSE TokenResponse(create_access_token(users[user].username, now),
                          create_refresh_token(users[user].username, now))

\* faulty variant: an unknown username gets an answer of its own
login_user_UnknownUserDetail(username, password) ==
    LET user == get_user_by_username(username)
    IN IF user = 0 THEN HTTPException(404, "User not found", FALSE)
       ELSE IF ~verify_password(password, users[user].hashed_password)
       THEN HTTPException(401, DetailBadLogin, TRUE)
       ELSE IF ~users[user].confirmed
       THEN HTTPException(401, DetailNotConfirmed, FALSE)
       ELSE TokenResponse(create_access_token(users[user].username, now),
                          create_refresh_token(users[user].username, now))

login_user(username, password) ==
    LET user == get_user_by_username(username)
    IN IF user = 0 \/ ~verify_password(password, users[user].hashed_password)
       THEN HTTPException(401, DetailBadLogin, TRUE)
       ELSE IF ~users[user].confirmed
       THEN HTTPException(401, DetailNotConfirmed, FALSE)
       ELSE TokenResponse(create_access_token(users[user].username, now),
                          create_refresh_token(users[user].username, now))

\* faulty variant: a refused login revokes the refresh token of the user named
Login_RevokeOnFailure(username, password) ==
    /\ req' = Request("login", username, password, "", NoToken, 0, NoContact)
    /\ resp' = login_user(username, password)
    /\ IF resp'.status = 200
       THEN /\ users' = set_refresh_token(users[get_user_by_username(username)].id,
                                          resp'.refresh_token)
            /\ eff' = Effects(1, 0)
            /\ issued' = issued \cup {resp'.access_token, resp'.refresh_token}
            /\ lastLogin' = [lastLogin EXCEPT ![username] = resp'.refresh_token]
            /\ oldLogin' = IF lastLogin[username] \notin {NoToken, resp'.refresh_token}
                           THEN oldLogin \cup {lastLogin[username]}
                           ELSE oldLogin
       ELSE /\ users' = IF get_user_by_username(username) = 0 THEN users
                        ELSE set_refresh_token(get_user_by_username(username), NoToken)
            /\ eff' = Effects(1, 0)
            /\ UNCHANGED <<issued, lastLogin, oldLogin>>
    /\ UNCHANGED <<contacts, nextContactId, now, ticks, outbox, reg, superseded>>

Login(username, password) ==
    /\ req' = Request("login", username, password, "", NoToken, 0, NoContact)
    /\ resp' = login_user(username, password)
    /\ IF resp'.status = 200
       THEN /\ users' = set_refresh_token(users[get_user_by_username(username)].id,
                                          resp'.refresh_token)
            /\ eff' = Effects(1, 0)
            /\ issued' = issued \cup {resp'.access_token, resp'.refresh_token}
            /\ lastLogin' = [lastLogin EXCEPT ![username] = resp'.refresh_token]
            /\ oldLogin' = IF lastLogin[username] \notin {NoToken, resp'.refresh_token}
                           THEN oldLogin \cup {lastLogin[username]}
                           ELSE oldLogin
       ELSE /\ eff' = Effects(0, 0)
            /\ UNCHANGED <<users, issued, lastLogin, oldLogin>>
    /\ UNCHANGED <<contacts, nextContactId, now, ticks, outbox, reg, superseded>>

\* ------------------------------------- GET /auth/confirmed_email/{token}
\* faulty variant: no early return for a user who is already confirmed
confirmed_email_NoAlreadyCheck(token) ==
    LET email == get_email_from_token(token)
        user == get_user_by_email(email)
    IN IF email = "" THEN HTTPException(422, DetailBadEmailToken, FALSE)
       ELSE IF user = 0 THEN HTTPException(400, DetailVerification, FALSE)
       ELSE Message(MsgConfirmed)

confirmed_email(token) ==
    LET email == get_email_from_token(token)
        user == get_user_by_email(email)
    IN IF email = "" THEN HTTPException(422, DetailBadEmailToken, FALSE)
       ELSE IF email = NoSubject THEN Unhandled
       ELSE IF user = 0 THEN HTTPException(400, DetailVerification, FALSE)
       ELSE IF users[user].confirmed THEN Message(MsgAlreadyConfirmed)
       ELSE Message(MsgConfirmed)

ConfirmEmail(token) ==
    /\ req' = Request("confirmed_email", "", "", get_email_from_token(token), token,
                      0, NoContact)
    /\ resp' = confirmed_email(token)
    /\ IF resp'.message = MsgConfirmed
       THEN /\ users' = repo_confirmed_email(get_email_from_token(token))
            /\ eff' = Effects(1, 0)
       ELSE /\ eff' = Effects(0, 0)
            /\ UNCHANGED users
    /\ UNCHANGED <<contacts, nextContactId, now, ticks, issued, outbox, reg,
                   superseded, lastLogin, oldLogin>>

\* ------------------------------------------- POST /auth/request_email
\* faulty variant: the confirmed flag is not read
request_email_NoConfirmedCheck(email) ==
    LET user == get_user_by_email(email)
    IN IF user = 0 THEN Unhandled ELSE Message(MsgCheckEmail)

\* faulty variant: an unknown e-mail is answered before the row is read
request_email_UnknownGuarded(email) ==
    LET user == get_user_by_email(email)
    IN IF user = 0 THEN HTTPException(404, "User not found", FALSE)
       ELSE IF users[user].confirmed THEN Message(MsgAlreadyConfirmed)
       ELSE Message(MsgCheckEmail)

request_email(email) ==
    LET user == get_user_by_email(email)
    IN IF user = 0 THEN Unhandled       \* user.confirmed on None: AttributeError
       ELSE IF users[user].confirmed THEN Message(MsgAlreadyConfirmed)
       ELSE Message(MsgCheckEmail)

RequestEmail(email) ==
    /\ req' = Request("request_email", "", "", email, NoToken, 0, NoContact)
    /\ resp' = request_email(email)
    /\ IF resp'.message = MsgCheckEmail
       THEN /\ outbox' = outbox \cup {[email |-> users[get_user_by_email(email)].email,
                                       username |-> users[get_user_by_email(email)].username]}
            /\ eff' = Effects(0, 1)
       ELSE /\ eff' = Effects(0, 0)
            /\ UNCHANGED outbox
    /\ UNCHANGED <<users, contacts, nextContactId, now, ticks, issued, reg,
                   superseded, lastLogin, oldLogin>>

\* -------------------------------------------- POST /auth/token-refresh
refresh(refresh_token) ==
    LET user == verify_refresh_token(refresh_token)
    IN IF user = -1 THEN Unhandled
       ELSE IF user = 0 THEN HTTPException(401, DetailBadRefresh, TRUE)
       ELSE TokenResponse(create_access_token(users[user].username, now),
                          create_refresh_token(users[user].username, now))

\* what the handler passes to set_refresh_token (api/auth.py:186): the
\* token that was presented
RefreshStored(refresh_token, new_refresh_token) == refresh_token

Refresh(refresh_token) ==
    /\ req' = Request("token-refresh", "", "", "", refresh_token, 0, NoContact)
    /\ resp' = refresh(refresh_token)
    /\ IF resp'.status = 200
       THEN /\ users' = set_refresh_token(users[verify_refresh_token(refresh_token)].id,
                                          RefreshStored(refresh_token, resp'.refresh_token))
            /\ eff' = Effects(1, 0)
            /\ issued' = issued \cup {resp'.access_token, resp'.refresh_token}
            /\ superseded' = IF resp'.refresh_token # refresh_token
                             THEN superseded \cup {refresh_token}
                             ELSE superseded
       ELSE /\ eff' = Effects(0, 0)
            /\ UNCHANGED <<users, issued, superseded>>
    /\ UNCHANGED <<contacts, nextContactId, now, ticks, outbox, reg, lastLogin, oldLogin>>

\* ------------------------------------------------ PATCH /users/avatar
\* UploadFileService(...).upload_file(file, user.username)
UploadedUrl == "cloudinary"

update_avatar_user(token) ==
    LET user == get_current_user(token)
    IN IF user = -1 THEN Unhandled
       ELSE IF user = 0 THEN HTTPException(401, DetailCredentials, TRUE)
       ELSE UserResponse(200, [users[user] EXCEPT !.avatar = UploadedUrl])

UpdateAvatar(token) ==
    /\ req' = Request("avatar", "", "", "", token, 0, NoContact)
    /\ resp' = update_avatar_user(token)
    /\ IF resp'.status = 200
       THEN /\ users' = update_avatar_url(users[get_current_user(token)].email, UploadedUrl)
            /\ eff' = Effects(1, 0)
       ELSE /\ eff' = Effects(0, 0)
            /\ UNCHANGED users
    /\ UNCHANGED <<contacts, nextContactId, now, ticks, issued, outbox, reg,
                   superseded, lastLogin, oldLogin>>

\* --------------------------------------------------------- contacts table
\* Column(Date) keeps the calendar day of the datetime the schema accepted;
\* read back it is that day at 00:00. -1 stands for None.
DateColumn(dt) == IF dt = -1 THEN -1 ELSE (dt \div SecondsPerDay) * SecondsPerDay

ContactBody(first_name, last_name, email, phone, birth_date, additional_data) ==
    [first_name |-> first_name, last_name |-> last_name, email |-> email,
     phone |-> phone, birth_date |-> birth_date, additional_data |-> additional_data]

\* request bodies ContactCreate accepts ("" is an omitted additional_data)
CreateBodies ==
    { ContactBody("Ivan", "Ivanov", "ivan@x", "123", SecondsPerDay, ""),
      ContactBody("Olga", "Orlova", "olga@x", "456", 10 * SecondsPerDay + 3600, "note"),
      ContactBody("Ivan", "Petrov", "ivan@x", "789", 0, "") }

\* ContactUpdate makes every field optional ("" and -1 are omitted fields)
UpdateBodies ==
    CreateBodies \cup { ContactBody("Oleg", "", "", "", -1, "") }

Contact(id, user_id, body) ==
    [id |-> id, user_id |-> user_id, first_name |-> body.first_name,
     last_name |-> body.last_name, email |-> body.email, phone |-> body.phone,
     birth_date |-> DateColumn(body.birth_date), additional_data |-> body.additional_data]

\* the request body as the client sent it (birth_date still a datetime)
Submitted(body) == [Contact(0, 0, body) EXCEPT !.birth_date = body.birth_date]

BodyOf(c) ==
    ContactBody(c.first_name, c.last_name, c.email, c.phone, c.birth_date, c.additional_data)

\* faulty variant: the column is not declared unique
ContactsUniqueOk_NoConstraint(id, email) == TRUE

\* unique=True on contacts.email (NULLs do not collide)
ContactsUniqueOk(id, email) ==
    email = "" \/ \A c \in contacts : c.id = id \/ c.email # email

\* response_model=ContactResponse: the five ContactBase fields are required
ContactSerializable(c) ==
    /\ c.first_name # "" /\ c.last_name # "" /\ c.email # "" /\ c.phone # ""
    /\ c.birth_date # -1

\* faulty variant: the query filters by id only
get_contact_by_id_AnyOwner(contact_id, user) ==
    LET S == {c \in contacts : c.id = contact_id}
    IN IF S = {} THEN NoContact ELSE CHOOSE c \in S : TRUE

\* select(Contact).filter_by(id=contact_id, user=user): the row, or NoContact
get_contact_by_id(contact_id, user) ==
    LET S == {c \in contacts : c.id = contact_id /\ c.user_id = user}
    IN IF S = {} THEN NoContact ELSE CHOOSE c \in S : TRUE

\* ------------------------------------------------------- POST /contacts/
create_contact(token, body) ==
    LET user == get_current_user(token)
    IN IF user = -1 THEN Unhandled
       ELSE IF user = 0 THEN HTTPException(401, DetailCredentials, TRUE)
       ELSE IF ~ContactsUniqueOk(nextContactId, body.email)
       THEN Unhandled                        \* IntegrityError on commit
       ELSE ContactResponse(201, Contact(nextContactId, user, body))

CreateContact(token, body) ==
    /\ nextContactId <= MaxContacts
    /\ req' = Request("create_contact", "", "", "", token, 0, Submitted(body))
    /\ resp' = create_contact(token, body)
    /\ IF resp'.status = 201
       THEN /\ contacts' = contacts \cup {resp'.contact}
            /\ nextContactId' = nextContactId + 1
            /\ eff' = Effects(1, 0)
       ELSE IF resp'.status = 500
       THEN \* the id drawn from the sequence for the failed INSERT is spent
            /\ nextContactId' = nextContactId + 1
            /\ eff' = Effects(0, 0)
            /\ UNCHANGED contacts
       ELSE /\ eff' = Effects(0, 0)
            /\ UNCHANGED <<contacts, nextContactId>>
    /\ UNCHANGED <<users, now, ticks, issued, outbox, reg, superseded, lastLogin, oldLogin>>

\* ---------------------------------------------- GET /contacts/{contact_id}
read_contact(token, contact_id) ==
    LET user == get_current_user(token)
        contact == get_contact_by_id(contact_id, user)
    IN IF user = -1 THEN Unhandled
       ELSE IF user = 0 THEN HTTPException(401, DetailCredentials, TRUE)
       ELSE IF contact = NoContact THEN HTTPException(404, DetailContactNotFound, FALSE)
       ELSE IF ~ContactSerializable(contact) THEN Unhandled
       ELSE ContactResponse(200, contact)

ReadContact(token, contact_id) ==
    /\ req' = Request("read_contact", "", "", "", token, contact_id, NoContact)
    /\ resp' = read_contact(token, contact_id)
    /\ eff' = Effects(0, 0)
    /\ UNCHANGED <<users, contacts, nextContactId, now, ticks, issued, outbox, reg,
                   superseded, lastLogin, oldLogin>>

\* ---------------------------------------------- PUT /contacts/{contact_id}
\* the row after ContactRepository.update_contact assigned all six fields
Updated(contact, body) == Contact(contact.id, contact.user_id, body)

update_contact(token, contact_id, body) ==
    LET user == get_current_user(token)
        contact == get_contact_by_id(contact_id, user)
    IN IF user = -1 THEN Unhandled
       ELSE IF user = 0 THEN HTTPException(401, DetailCredentials, TRUE)
       ELSE IF contact = NoContact THEN HTTPException(404, DetailContactNotFound, FALSE)
       ELSE IF ~ContactsUniqueOk(contact.id, body.email) THEN Unhandled
       ELSE IF ~ContactSerializable(Updated(contact, body)) THEN Unhandled
       ELSE ContactResponse(200, Updated(contact, body))

UpdateContact(token, contact_id, body) ==
    LET user == get_current_user(token)
        contact == get_contact_by_id(contact_id, user)
    IN /\ req' = Request("update_contact", "", "", "", token, contact_id, Submitted(body))
       /\ resp' = update_contact(token, contact_id, body)
       /\ IF user > 0 /\ contact # NoContact /\ ContactsUniqueOk(contact.id, body.email)
          THEN \* committed before the response is serialized
               /\ contacts' = (contacts \ {contact}) \cup {Updated(contact, body)}
               /\ eff' = Effects(1, 0)
          ELSE /\ eff' = Effects(0, 0)
               /\ UNCHANGED contacts
       /\ UNCHANGED <<users, nextContactId, now, ticks, issued, outbox, reg,
                      superseded, lastLogin, oldLogin>>

\* ------------------------------------------- DELETE /contacts/{contact_id}
remove_contact(token, contact_id) ==
    LET user == get_current_user(token)
        contact == get_contact_by_id(contact_id, user)
    IN IF user = -1 THEN Unhandled
       ELSE IF user = 0 THEN HTTPException(401, DetailCredentials, TRUE)
       ELSE IF contact = NoContact THEN HTTPException(404, DetailContactNotFound, FALSE)
       ELSE IF ~ContactSerializable(contact) THEN Unhandled
       ELSE ContactResponse(200, contact)

RemoveContact(token, contact_id) ==
    LET user == get_current_user(token)
        contact == get_contact_by_id(contact_id, user)
    IN /\ req' = Request("remove_contact", "", "", "", token, contact_id, NoContact)
       /\ resp' = remove_contact(token, contact_id)
       /\ IF user > 0 /\ contact # NoContact
          THEN /\ contacts' = contacts \ {contact}
               /\ eff' = Effects(1, 0)
          ELSE /\ eff' = Effects(0, 0)
               /\ UNCHANGED contacts
       /\ UNCHANGED <<users, nextContactId, now, ticks, issued, outbox, reg,
                      superseded, lastLogin, oldLogin>>

\* ---------------------------------------------------------- GET /contacts/
\* value ILIKE '%query%' for the query strings the model sends: the stored
\* strings that contain the query, letter case ignored
ILikeMatches(query) ==
    CASE query = "IV" -> {"Ivan", "Ivanov", "ivan@x"}
      [] query = "@x" -> {"ivan@x", "olga@x", "d0@x", "d1@x", "d7@x", "d8@x", "d10@x"}
      [] OTHER -> {}

\* or_(first_name.ilike, last_name.ilike, email.ilike); applied only when
\* query is a non-empty string (`if query:`)
QueryMatches(c, query) ==
    \/ query = ""
    \/ c.first_name \in ILikeMatches(query)
    \/ c.last_name \in ILikeMatches(query)
    \/ c.email \in ILikeMatches(query)

\* the orders in which a statement without order_by can return the rows S
RowOrders(S) ==
    {rows \in [1..Cardinality(S) -> S] : \A i, j \in DOMAIN rows : i # j => rows[i] # rows[j]}

\* OFFSET skip LIMIT limit
Page(rows, skip, limit) ==
    [i \in 1..(IF Len(rows) - skip < limit
               THEN (IF Len(rows) - skip < 0 THEN 0 ELSE Len(rows) - skip)
               ELSE limit) |-> rows[skip + i]]

\* faulty variant: the statement is not filtered by owner
get_contacts_AnyOwner(skip, limit, user, query) ==
    {Page(rows, skip, limit) :
        rows \in RowOrders({c \in contacts : QueryMatches(c, query)})}

\* ContactRepository.get_contacts: the lists the statement can return
get_contacts(skip, limit, user, query) ==
    {Page(rows, skip, limit) :
        rows \in RowOrders({c \in contacts : c.user_id = user /\ QueryMatches(c, query)})}

ReadContacts(token, skip, limit, query) ==
    LET user == get_current_user(token)
    IN /\ req' = [Request("read_contacts", "", "", "", token, 0, NoContact)
                    EXCEPT !.skip = skip, !.limit = limit, !.query = query]
       /\ IF user = -1
          THEN resp' = Unhandled
          ELSE IF user = 0
          THEN resp' = HTTPException(401, DetailCredentials, TRUE)
          ELSE \E rows \in get_contacts(skip, limit, user, query) :
                  resp' = IF \E i \in DOMAIN rows : ~ContactSerializable(rows[i])
                          THEN Unhandled
                          ELSE ContactListResponse(rows)
       /\ eff' = Effects(0, 0)
       /\ UNCHANGED <<users, contacts, nextContactId, now, ticks, issued, outbox, reg,
                      superseded, lastLogin, oldLogin>>

\* ------------------------------------------------- GET /contacts/birthdays
\* faulty variant: the window reaches ten days ahead
InBirthdayWindow_TenDays(c, today) ==
    /\ c.birth_date # -1
    /\ c.birth_date >= today
    /\ c.birth_date <= today + 10 * SecondsPerDay

\* The calendar the clock is read in: second 0 is 00:00 of 28 December of
\* year 0; years have 365 days (no leap year lies in the range used).
DayOfYear(dt) == ((dt \div SecondsPerDay) + 361) % 365
YearOf(dt) == ((dt \div SecondsPerDay) + 361) \div 365

\* faulty variant: the month and day are matched against the days of the
\* window, whatever the year
InBirthdayWindow_Anniversary(c, today) ==
    /\ c.birth_date # -1
    /\ \E k \in 0..BirthdayWindowDays :
          DayOfYear(c.birth_date) = DayOfYear(today + k * SecondsPerDay)

\* Contact.birth_date >= today, Contact.birth_date <= week: today is
\* datetime.today(), a datetime with the time of day, so the date column is
\* compared as that day at 00:00; a NULL birth_date matches nothing.
InBirthdayWindow(c, today) ==
    /\ c.birth_date # -1
    /\ c.birth_date >= today
    /\ c.birth_date <= today + BirthdayWindowDays * SecondsPerDay

\* order_by(Contact.birth_date)
Ordered(rows) ==
    \A i, j \in DOMAIN rows : i < j => rows[i].birth_date <= rows[j].birth_date

\* ContactRepository.get_birthdays: the lists the statement can return (rows
\* with equal birth_date come in either order)
get_birthdays(user, today) ==
    LET S == {c \in contacts : c.user_id = user /\ InBirthdayWindow(c, today)}
    IN {rows \in [1..Cardinality(S) -> S] :
           /\ \A i, j \in DOMAIN rows : i # j => rows[i] # rows[j]
           /\ Ordered(rows)}

GetBirthdays(token) ==
    LET user == get_current_user(token)
    IN /\ req' = Request("get_birthdays", "", "", "", token, 0, NoContact)
       /\ IF user = -1
          THEN resp' = Unhandled
          ELSE IF user = 0
          THEN resp' = HTTPException(401, DetailCredentials, TRUE)
          ELSE \E rows \in get_birthdays(user, now) :
                  resp' = IF \E i \in DOMAIN rows : ~ContactSerializable(rows[i])
                          THEN Unhandled
                          ELSE ContactListResponse(rows)
       /\ eff' = Effects(0, 0)
       /\ UNCHANGED <<users, contacts, nextContactId, now, ticks, issued, outbox, reg,
                      superseded, lastLogin, oldLogin>>

\* ------------------------------------------------------------ the system
ContactIds == 1..(MaxContacts + 1)

\* Authentication, one request at a time, from the empty store.
Next ==
    \/ \E d \in TickSteps : Tick(d)
    \/ \E b \in RegBodies : Register(b[1], b[2], b[3])
    \/ \E task \in outbox : SendEmail(task)
    \/ \E u \in Usernames, pw \in LoginPasswords : Login(u, pw)
    \/ \E token \in Presentable : ConfirmEmail(token)
    \/ \E e \in Emails : RequestEmail(e)
    \/ \E token \in Presentable : Refresh(token)

Spec == Init /\ [][Next]_vars

\* Contacts, from a store the authentication flow has filled: both users
\* registered, mailed and confirmed, then logged in, all within second 0
\* (SeedReached is a reachable state of Spec).
SeedUser(id, username, email) ==
    [User(id, username, email, get_password_hash("p1"), Gravatar(email))
        EXCEPT !.confirmed = TRUE, !.refresh_token = create_refresh_token(username, 0)]

SeedUsers == << SeedUser(1, "ann", "a@x"), SeedUser(2, "a@x", "b@x") >>

SeedIssued ==
    { create_email_token("a@x", 0), create_email_token("b@x", 0),
      create_access_token("ann", 0), create_refresh_token("ann", 0),
      create_access_token("a@x", 0), create_refresh_token("a@x", 0) }

InitContacts ==
    /\ users = SeedUsers
    /\ contacts = {}
    /\ nextContactId = 1
    /\ now = 0
    /\ ticks = 0
    /\ issued = SeedIssued
    /\ outbox = {}
    /\ reg = [p \in Procs |-> Idle]
    /\ req = Request("login", "a@x", "p1", "", NoToken, 0, NoContact)
    /\ resp = TokenResponse(create_access_token("a@x", 0), create_refresh_token("a@x", 0))
    /\ eff = Effects(1, 0)
    /\ superseded = {}
    /\ lastLogin = [u \in Usernames |-> create_refresh_token(u, 0)]
    /\ oldLogin = {}

SeedReached == InitContacts

NextContacts ==
    \/ \E d \in TickSteps : Tick(d)
    \/ \E token \in Presentable, body \in CreateBodies : CreateContact(token, body)
    \/ \E token \in Presentable, id \in ContactIds : ReadContact(token, id)
    \/ \E token \in Presentable, id \in ContactIds, body \in UpdateBodies :
           UpdateContact(token, id, body)
    \/ \E token \in Presentable, id \in ContactIds : RemoveContact(token, id)

SpecContacts == InitContacts /\ [][NextContacts]_vars

\* Every operation of the service in one system, from the empty store, with
\* one request body per operation.
NextAll ==
    \/ \E b \in RegBodies : Register(b[1], b[2], b[3])
    \/ \E task \in outbox : SendEmail(task)
    \/ \E u \in Usernames : Login(u, "p1")
    \/ \E token \in Presentable : ConfirmEmail(token)
    \/ \E e \in Emails : RequestEmail(e)
    \/ \E token \in Presentable : Refresh(token)
    \/ \E token \in Presentable : UpdateAvatar(token)
    \/ \E token \in Presentable :
           CreateContact(token, ContactBody("Ivan", "Ivanov", "ivan@x", "123", SecondsPerDay, ""))
    \/ \E token \in Presentable : ReadContact(token, 1)
    \/ \E token \in Presentable :
           UpdateContact(token, 1, ContactBody("Oleg", "", "", "", -1, ""))
    \/ \E token \in Presentable : RemoveContact(token, 1)

SpecAll == Init /\ [][NextAll]_vars

\* Concurrent registration: the register handler of each process advances
\* from await to await in any interleaving.
NextReg ==
    \/ \E p \in Procs : SessionEnter(p)
    \/ \E p \in Procs, b \in RegBodies : RegisterLookupEmail(p, b[1], b[2], b[3])
    \/ \E p \in Procs : RegisterLookupUsername(p)
    \/ \E p \in Procs : RegisterCreate(p)
    \/ \E p \in Procs : SessionExcept(p)
    \/ \E p \in Procs : SessionFinally(p)
    \/ \E task \in outbox : SendEmail(task)

SpecReg == Init /\ [][NextReg]_vars

\* The event loop runs every coroutine that is ready: a request that was
\* started is stepped until its session manager has finished.
RequestStep(p) ==
    \/ \E b \in RegBodies : RegisterLookupEmail(p, b[1], b[2], b[3])
    \/ RegisterLookupUsername(p)
    \/ RegisterCreate(p)
    \/ SessionExcept(p)
    \/ SessionFinally(p)

SpecRegFair == SpecReg /\ \A p \in Procs : WF_vars(RequestStep(p))

\* Birthdays: the two users logged in at some time of day 0 and keep
\* contacts whose birth dates lie 0, 1, 7, 8 and 10 days after day 0.
LoginTimes == {0, SecondsPerDay \div 2, SecondsPerDay - 1}
BirthdayTicks == {1, JWT_EXPIRATION_SECONDS}

BirthdayBodies ==
    { ContactBody("Ivan", "Ivanov", "d0@x", "100", 0, ""),
      ContactBody("Olga", "Orlova", "d1@x", "101", SecondsPerDay, ""),
      ContactBody("Petro", "Petrov", "d7@x", "107", 7 * SecondsPerDay, ""),
      ContactBody("Anna", "Bondar", "d8@x", "108", 8 * SecondsPerDay, ""),
      ContactBody("Oleg", "Koval", "d10@x", "110", 10 * SecondsPerDay, "") }

InitBirthdays ==
    \E t \in LoginTimes :
        /\ users = << [SeedUser(1, "ann", "a@x")
                          EXCEPT !.refresh_token = create_refresh_token("ann", t)],
                      [SeedUser(2, "a@x", "b@x")
                          EXCEPT !.refresh_token = create_refresh_token("a@x", t)] >>
        /\ contacts = {}
        /\ nextContactId = 1
        /\ now = t
        /\ ticks = 0
        /\ issued = { create_access_token("ann", t), create_refresh_token("ann", t),
                      create_access_token("a@x", t), create_refresh_token("a@x", t) }
        /\ outbox = {}
        /\ reg = [p \in Procs |-> Idle]
        /\ req = Request("login", "a@x", "p1", "", NoToken, 0, NoContact)
        /\ resp = TokenResponse(create_access_token("a@x", t), create_refresh_token("a@x", t))
        /\ eff = Effects(1, 0)
        /\ superseded = {}
        /\ lastLogin = [u \in Usernames |-> create_refresh_token(u, t)]
        /\ oldLogin = {}

NextBirthdays ==
    \/ \E d \in BirthdayTicks : Tick(d)
    \/ \E token \in Presentable, body \in BirthdayBodies : CreateContact(token, body)
    \/ \E token \in Presentable : GetBirthdays(token)

SpecBirthdays == InitBirthdays /\ [][NextBirthdays]_vars

\* Birthdays across the turn of the year: day 0 is 28 December, the window of
\* a request on day 0 ends on 4 January. Birth dates: 29 December and
\* 2 January inside the window, the same days one year earlier, and
\* 29 December one year later.
AnniversaryBodies ==
    { ContactBody("Ivan", "Ivanov", "ivan@x", "101", SecondsPerDay, ""),
      ContactBody("Olga", "Orlova", "olga@x", "105", 5 * SecondsPerDay, ""),
      ContactBody("Petro", "Petrov", "petro@x", "201", (1 - 365) * SecondsPerDay, ""),
      ContactBody("Anna", "Bondar", "anna@x", "205", (5 - 365) * SecondsPerDay, ""),
      ContactBody("Oleg", "Koval", "oleg@x", "301", (1 + 365) * SecondsPerDay, "") }

NextAnniversary ==
    \/ \E d \in BirthdayTicks : Tick(d)
    \/ \E token \in Presentable, body \in AnniversaryBodies : CreateContact(token, body)
    \/ \E token \in Presentable : GetBirthdays(token)

SpecAnniversary == InitBirthdays /\ [][NextAnniversary]_vars

\* Listing: the store of SpecBirthdays, read through GET /contacts/ with
\* paging and a search string, and through GET /contacts/birthdays.
Skips == {0, 1}
Limits == {1, 100}
Queries == {"", "IV", "@x"}

NextLists ==
    \/ \E d \in BirthdayTicks : Tick(d)
    \/ \E token \in Presentable, body \in BirthdayBodies : CreateContact(token, body)
    \/ \E token \in Presentable : GetBirthdays(token)
    \/ \E token \in Presentable, skip \in Skips, limit \in Limits, query \in Queries :
           ReadContacts(token, skip, limit, query)

SpecLists == InitBirthdays /\ [][NextLists]_vars

\* Token verification applied to any token: the claims a token can carry,
\* under this service's keys or another key, beside the tokens handed out.
TokenInputs ==
    { Encode(secret, sub, exp, token_type, -1) :
         secret \in {JWT_SECRET, JWT_REFRESH_SECRET, "other_key"},
         sub \in {"", "ann", "ghost"},
         exp \in {now - 1, now + JWT_EXPIRATION_SECONDS},
         token_type \in {"", "refresh"} } \cup Presentable

\* the outcome of verify_refresh_token: the user, None (NoResponse), or the
\* uncaught exception
VerifyRefreshToken(token) ==
    /\ req' = Request("verify_refresh_token", "", "", "", token, 0, NoContact)
    /\ resp' = LET user == verify_refresh_token(token)
               IN IF user = -1 THEN Unhandled
                  ELSE IF user = 0 THEN NoResponse
                  ELSE UserResponse(200, users[user])
    /\ eff' = Effects(0, 0)
    /\ UNCHANGED <<users, contacts, nextContactId, now, ticks, issued, outbox, reg,
                   superseded, lastLogin, oldLogin>>

\* the outcome of get_current_user: the user, credentials_exception, or the
\* uncaught exception
GetCurrentUser(token) ==
    /\ req' = Request("get_current_user", "", "", "", token, 0, NoContact)
    /\ resp' = LET user == get_current_user(token)
               IN IF user = -1 THEN Unhandled
                  ELSE IF user = 0 THEN HTTPException(401, DetailCredentials, TRUE)
                  ELSE UserResponse(200, users[user])
    /\ eff' = Effects(0, 0)
    /\ UNCHANGED <<users, contacts, nextContactId, now, ticks, issued, outbox, reg,
                   superseded, lastLogin, oldLogin>>

NextTokens ==
    \/ \E d \in TickSteps : Tick(d)
    \/ \E u \in Usernames : Login(u, "p1")
    \/ \E token \in TokenInputs : VerifyRefreshToken(token)
    \/ \E token \in TokenInputs : GetCurrentUser(token)

SpecTokens == InitContacts /\ [][NextTokens]_vars

\* ================================================================ claims

StoredRefreshToken(username) == users[get_user_by_username(username)].refresh_token

\* C1: after a successful token-refresh the refresh token stored for the user
\* is the new refresh token of the response, so that presenting it next,
\* unexpired, succeeds.
C1_RefreshPersistsNewToken ==
    (req.op = "token-refresh" /\ resp.status = 200) =>
        /\ StoredRefreshToken(resp.refresh_token.sub) = resp.refresh_token
        /\ (resp.refresh_token.exp >= now => refresh(resp.refresh_token).status = 200)

\* C2: once a token-refresh presenting R has succeeded and issued a different
\* new refresh token, every later token-refresh presenting R is answered 401.
C2_SupersededRefreshRejected ==
    [][\A token \in superseded : Refresh(token) => resp'.status = 401]_vars

\* C3: a refresh token returned by a login is rejected with 401 once a later
\* login of the same user has issued a different refresh token.
C3_OldLoginTokenRejected ==
    (req.op = "token-refresh" /\ req.token \in oldLogin) =>
        resp = HTTPException(401, DetailBadRefresh, TRUE)

C3_Witness ==
    /\ req.op = "token-refresh" /\ req.token \in oldLogin
    /\ DecodeOk(req.token, JWT_REFRESH_SECRET, now)
    /\ resp.status = 401

\* the user a login request names holds the password it carries
CorrectCredentials(username, password) ==
    /\ get_user_by_username(username) # 0
    /\ verify_password(password, users[get_user_by_username(username)].hashed_password)

\* C4: a login with the right username and password of an unconfirmed user
\* is answered 401 "not confirmed", carries no token and writes nothing.
C4_UnconfirmedLoginRefused ==
    (/\ req.op = "login"
     /\ CorrectCredentials(req.username, req.password)
     /\ ~users[get_user_by_username(req.username)].confirmed) =>
        /\ resp = HTTPException(401, DetailNotConfirmed, FALSE)
        /\ eff = Effects(0, 0)
        /\ users[get_user_by_username(req.username)].refresh_token = NoToken

C4_Witness ==
    /\ req.op = "login"
    /\ CorrectCredentials(req.username, req.password)
    /\ ~users[get_user_by_username(req.username)].confirmed
    /\ resp.detail = DetailNotConfirmed

\* C5: a login with an unknown username and a login with a known username
\* and a wrong password get the same answer, whatever the confirmed flag.
C5_LoginDoesNotRevealUsername ==
    (req.op = "login" /\ ~CorrectCredentials(req.username, req.password)) =>
        resp = HTTPException(401, DetailBadLogin, TRUE)

C5_Witness ==
    /\ req.op = "login"
    /\ get_user_by_username(req.username) # 0
    /\ users[get_user_by_username(req.username)].confirmed
    /\ ~CorrectCredentials(req.username, req.password)
    /\ resp.status = 401
    /\ \E u \in Usernames : get_user_by_username(u) = 0

\* C6: a register request whose e-mail or username a stored user holds is
\* answered 409, the e-mail message when the e-mail is held, and creates no
\* user, changes none and schedules no mail.
C6_DuplicateRegisterRefused ==
    [][\A b \in RegBodies :
         (/\ Register(b[1], b[2], b[3])
          /\ (get_user_by_email(b[2]) # 0 \/ get_user_by_username(b[1]) # 0)) =>
             /\ resp' = HTTPException(409, IF get_user_by_email(b[2]) # 0
                                           THEN DetailEmailTaken
                                           ELSE DetailUsernameTaken, FALSE)
             /\ users' = users
             /\ outbox' = outbox
             /\ eff' = Effects(0, 0)]_vars

C6_Witness ==
    /\ req.op = "register"
    /\ get_user_by_email(req.email) # 0
    /\ get_user_by_username(req.username) # 0
    /\ resp = HTTPException(409, DetailEmailTaken, FALSE)

\* C7: no two stored users share a username and no two share an e-mail, in
\* any interleaving of register requests.
C7_UsersUnique ==
    \A i, j \in DOMAIN users :
        i # j => users[i].username # users[j].username /\ users[i].email # users[j].email

\* a register request that passed both look-ups lost the race at the insert
C7_Witness ==
    /\ req.op = "register"
    /\ resp = Unhandled
    /\ Len(users) > 0

\* C8: confirming with a valid token for a user already confirmed returns
\* the "already confirmed" message, writes nothing, leaves the user
\* confirmed, and answers the same when repeated.
C8_ConfirmIdempotent ==
    [][\A token \in Presentable :
         (/\ ConfirmEmail(token)
          /\ get_email_from_token(token) # ""
          /\ get_user_by_email(get_email_from_token(token)) # 0
          /\ users[get_user_by_email(get_email_from_token(token))].confirmed) =>
             /\ resp' = Message(MsgAlreadyConfirmed)
             /\ users' = users
             /\ eff' = Effects(0, 0)
             /\ confirmed_email(token)' = Message(MsgAlreadyConfirmed)]_vars

C8_Witness ==
    /\ req.op = "confirmed_email"
    /\ resp = Message(MsgAlreadyConfirmed)
    /\ users[get_user_by_email(req.email)].confirmed

\* C9: a user is unconfirmed when registered, only the confirm-email request
\* sets the flag, and no operation clears it.
C9_ConfirmedMonotone ==
    [][/\ \A i \in DOMAIN users :
            i \in DOMAIN users' /\ (users[i].confirmed => users'[i].confirmed)
       /\ \A i \in DOMAIN users' \ DOMAIN users : ~users'[i].confirmed
       /\ (\E i \in DOMAIN users : users'[i].confirmed # users[i].confirmed) =>
              \E token \in Presentable : ConfirmEmail(token)]_vars

\* a confirmed user has logged in, changed the avatar and written a contact
C9_Witness ==
    /\ req.op = "remove_contact" /\ resp.status = 200
    /\ \E i \in DOMAIN users :
          /\ users[i].confirmed
          /\ users[i].refresh_token # NoToken
          /\ users[i].avatar = UploadedUrl

\* the contact id names no contact of the user the token authenticates
NotOwnContact(token, contact_id) ==
    /\ get_current_user(token) > 0
    /\ ~\E c \in contacts : c.id = contact_id /\ c.user_id = get_current_user(token)

ContactNotFound == HTTPException(404, DetailContactNotFound, FALSE)

\* C10: GET, PUT and DELETE of a contact id that is not a contact of the
\* authenticated user answer 404 "Contact not found", with no contact in the
\* response, and leave the contacts table as it was.  (A contact request
\* records its token and id in req, so the step's request is the one to test.)
C10_ForeignContactNotFound ==
    [][LET token == req'.token
           id == req'.cid
       IN NotOwnContact(token, id) =>
            /\ ReadContact(token, id) => resp' = ContactNotFound /\ contacts' = contacts
            /\ RemoveContact(token, id) => resp' = ContactNotFound /\ contacts' = contacts
            /\ \A body \in UpdateBodies :
                  UpdateContact(token, id, body) =>
                     resp' = ContactNotFound /\ contacts' = contacts]_vars

\* a PUT on another user's contact was answered 404
C10_Witness ==
    /\ req.op = "update_contact"
    /\ resp = ContactNotFound
    /\ get_current_user(req.token) > 0
    /\ \E c \in contacts : c.id = req.cid /\ c.user_id # get_current_user(req.token)

\* C11: after a create-contact request is answered 201, a get-by-id of the
\* created contact by the same user returns first name, last name, e-mail,
\* phone, birth date and notes equal to what was submitted.
C11_CreateReadRoundTrip ==
    (req.op = "create_contact" /\ resp.status = 201) =>
        LET got == read_contact(req.token, resp.contact.id)
        IN got.status = 200 => BodyOf(got.contact) = BodyOf(req.body)


\* the calendar day of the clock, at 00:00
Today == (now \div SecondsPerDay) * SecondsPerDay

\* the contacts a list response carries
Listed(r) == {r.contacts[i] : i \in DOMAIN r.contacts}

\* C12: a contact of the user whose birth date is tomorrow is in the result
\* of GET /contacts/birthdays and one whose birth date is ten days ahead is
\* not, at any time of day.
C12_TomorrowListedTenDaysNot ==
    [][(GetBirthdays(req'.token) /\ resp'.status = 200) =>
          \A c \in contacts :
             c.user_id = get_current_user(req'.token) =>
                /\ c.birth_date = Today + SecondsPerDay => c \in Listed(resp')
                /\ c.birth_date = Today + 10 * SecondsPerDay => c \notin Listed(resp')]_vars

\* late in the day, the user holds one contact of each kind
C12_Witness ==
    /\ req.op = "get_birthdays" /\ resp.status = 200
    /\ now = SecondsPerDay - 1
    /\ \E c \in Listed(resp) : c.birth_date = Today + SecondsPerDay
    /\ \E c \in contacts :
          /\ c.user_id = get_current_user(req.token)
          /\ c.birth_date = Today + 10 * SecondsPerDay
          /\ c \notin Listed(resp)

\* C13: get_birthdays returns exactly the user's contacts with
\* today <= birth_date <= today + 7 days, at any time of day, in ascending
\* birth-date order.
C13_WindowClosedAndSorted ==
    [][(GetBirthdays(req'.token) /\ resp'.status = 200) =>
          /\ Listed(resp') =
                {c \in contacts :
                    /\ c.user_id = get_current_user(req'.token)
                    /\ Today <= c.birth_date
                    /\ c.birth_date <= Today + BirthdayWindowDays * SecondsPerDay}
          /\ \A i, j \in DOMAIN resp'.contacts :
                i < j => resp'.contacts[i].birth_date <= resp'.contacts[j].birth_date]_vars

\* C14: verify_refresh_token never raises; it returns None when the
\* signature is invalid, the token is expired, the subject is missing,
\* token_type is not "refresh", the subject names no stored user, or the
\* token is not the one stored for the user, and the user otherwise.
C14_VerifyRefreshFailsClosed ==
    req.op = "verify_refresh_token" =>
        LET t == req.token
            Rejected == \/ t.secret # JWT_REFRESH_SECRET
                        \/ t.exp < now
                        \/ t.sub = ""
                        \/ t.token_type # "refresh"
                        \/ get_user_by_username(t.sub) = 0
                        \/ t # StoredRefreshToken(t.sub)
        IN /\ verify_refresh_token(t) # -1
           /\ Rejected <=> verify_refresh_token(t) = 0
           /\ ~Rejected => verify_refresh_token(t) = get_user_by_username(t.sub)

\* C15: get_current_user fails with the 401 credentials error, and no other
\* error, for a token with an invalid signature, an expired token, a token
\* without a subject and a token whose subject names no stored user.
C15_AccessVerifyFailsClosed ==
    req.op = "get_current_user" =>
        LET t == req.token
            Invalid == \/ t.secret # JWT_SECRET
                       \/ t.exp < now
                       \/ t.sub = ""
                       \/ get_user_by_username(t.sub) = 0
        IN Invalid => get_current_user(t) = 0

\* a token is the access token, or the refresh token, the service makes for
\* its subject and expiry
IsAccessToken(t) == t = create_access_token(t.sub, t.exp - JWT_EXPIRATION_SECONDS)
IsRefreshToken(t) == t = create_refresh_token(t.sub, t.exp - RefreshTTL)

\* C16: no access token the service issued is accepted by
\* verify_refresh_token, with or without a token_type "refresh" claim, and
\* no refresh token it issued is accepted by get_current_user.
C16_NoCrossUse ==
    \A t \in issued :
        /\ IsAccessToken(t) =>
              \A token_type \in {"", "refresh"} :
                 verify_refresh_token([t EXCEPT !.token_type = token_type]) = 0
        /\ IsRefreshToken(t) => get_current_user(t) = 0

\* an unexpired refresh token, the one stored for its user, was presented as
\* an access token and refused, while that user's access token is in date
C16_Witness ==
    /\ req.op = "token-refresh" /\ resp.status = 200
    /\ \E t \in issued :
          /\ IsRefreshToken(t)
          /\ verify_refresh_token(t) > 0
          /\ get_current_user(t) = 0
    /\ \E t \in issued : IsAccessToken(t) /\ get_current_user(t) > 0

\* the confirmation mail request_email schedules for the user of an e-mail
MailTask(email) ==
    [email |-> users[get_user_by_email(email)].email,
     username |-> users[get_user_by_email(email)].username]

\* C17: request_email for an existing user changes no user; for a confirmed
\* user it answers "already confirmed" and schedules nothing, for an
\* unconfirmed user it answers "check your email" and schedules one
\* confirmation mail; the same request repeated gets the same answer.
C17_RequestEmailResend ==
    [][\A e \in Emails :
         (RequestEmail(e) /\ get_user_by_email(e) # 0) =>
            /\ users' = users
            /\ request_email(e)' = resp'
            /\ IF users[get_user_by_email(e)].confirmed
               THEN /\ resp' = Message(MsgAlreadyConfirmed)
                    /\ eff' = Effects(0, 0)
                    /\ outbox' = outbox
               ELSE /\ resp' = Message(MsgCheckEmail)
                    /\ eff' = Effects(0, 1)
                    /\ outbox' = outbox \cup {MailTask(e)}]_vars

\* a confirmed user asked for the mail again
C17_Witness ==
    /\ req.op = "request_email"
    /\ get_user_by_email(req.email) # 0
    /\ users[get_user_by_email(req.email)].confirmed
    /\ resp = Message(MsgAlreadyConfirmed)
    /\ \E i \in DOMAIN users : ~users[i].confirmed

\* C18: a login with the password of a confirmed user returns an access
\* token, a refresh token and token_type "bearer", and the refresh token
\* stored for the user is the one returned.
C18_LoginStoresRefreshToken ==
    (/\ req.op = "login"
     /\ CorrectCredentials(req.username, req.password)
     /\ users[get_user_by_username(req.username)].confirmed) =>
        /\ resp.status = 200
        /\ IsAccessToken(resp.access_token) /\ resp.access_token.sub = req.username
        /\ IsRefreshToken(resp.refresh_token) /\ resp.refresh_token.sub = req.username
        /\ resp.token_type = "bearer"
        /\ StoredRefreshToken(req.username) = resp.refresh_token

\* a second login replaced the stored token of the first
C18_Witness ==
    /\ req.op = "login" /\ resp.status = 200
    /\ StoredRefreshToken(req.username) = resp.refresh_token
    /\ \E t \in oldLogin : t.sub = req.username

\* C19: when update_contact has committed on a contact of the caller, the
\* six fields of the stored contact are the values of the request body (an
\* omitted field is null), its id and owner are as before, and no other
\* contact has changed.
C19_UpdateReplacesAll ==
    [][\A body \in UpdateBodies :
          (UpdateContact(req'.token, req'.cid, body) /\ eff' = Effects(1, 0)) =>
             \E c \in contacts, d \in contacts' :
                /\ c.id = req'.cid /\ c.user_id = get_current_user(req'.token)
                /\ d.id = c.id /\ d.user_id = c.user_id
                /\ BodyOf(d) = body
                /\ contacts' \ {d} = contacts \ {c}]_vars

\* C20: no two stored contacts, of one owner or of two, have the same e-mail
\* (a null e-mail is no e-mail); a create or an update that would give a
\* contact the e-mail of another contact fails with the store's error and
\* leaves the stored contacts as they were.
C20_ContactEmailUnique ==
    [][/\ \A c, d \in contacts' : (c.id # d.id /\ c.email # "") => c.email # d.email
       /\ \A body \in CreateBodies :
             (/\ CreateContact(req'.token, body)
              /\ get_current_user(req'.token) > 0
              /\ \E c \in contacts : c.email = body.email) =>
                 resp' = Unhandled /\ contacts' = contacts
       /\ \A body \in UpdateBodies :
             (/\ UpdateContact(req'.token, req'.cid, body)
              /\ get_contact_by_id(req'.cid, get_current_user(req'.token)) # NoContact
              /\ body.email # ""
              /\ \E c \in contacts : c.id # req'.cid /\ c.email = body.email) =>
                 resp' = Unhandled /\ contacts' = contacts]_vars

\* a user's create was refused for the e-mail of another user's contact
C20_Witness ==
    /\ req.op = "create_contact" /\ resp = Unhandled
    /\ get_current_user(req.token) > 0
    /\ \E c \in contacts :
          c.email = req.body.email /\ c.user_id # get_current_user(req.token)

\* C21: every contact that GET /contacts/ (any skip, limit and query) and
\* GET /contacts/birthdays return to an authenticated user is owned by that
\* user.
C21_ListsOwnerScoped ==
    (req.op \in {"read_contacts", "get_birthdays"} /\ resp.status = 200) =>
        \A c \in Listed(resp) : c.user_id = get_user_by_username(req.token.sub)

\* a search that another user's contact matches returned the caller's own
\* contact and not the other one
C21_Witness ==
    /\ req.op = "read_contacts" /\ req.query = "@x" /\ resp.status = 200
    /\ Listed(resp) # {}
    /\ \E c \in contacts :
          /\ c.user_id # get_user_by_username(req.token.sub)
          /\ QueryMatches(c, req.query)
          /\ c \notin Listed(resp)

\* the refresh tokens handed out so far that verify_refresh_token accepts for
\* user i now
AcceptedRefreshTokens(i) == {t \in Presentable : verify_refresh_token(t) = i}

\* C22: for each user at most one refresh token is accepted, the stored one;
\* none is accepted for a user who never logged in successfully; after a
\* successful login the stored token is the one the login issued.
C22_SingleActiveRefreshToken ==
    /\ \A i \in DOMAIN users :
          /\ AcceptedRefreshTokens(i) \subseteq {users[i].refresh_token}
          /\ Cardinality(AcceptedRefreshTokens(i)) <= 1
          /\ lastLogin[users[i].username] = NoToken => AcceptedRefreshTokens(i) = {}
    /\ (req.op = "login" /\ resp.status = 200) =>
          StoredRefreshToken(req.username) = resp.refresh_token

\* after a second login one user has exactly one accepted token although two
\* unexpired refresh tokens were issued to them, and another user never
\* logged in
C22_Witness ==
    /\ req.op = "login" /\ resp.status = 200
    /\ \E i \in DOMAIN users :
          /\ users[i].username = req.username
          /\ AcceptedRefreshTokens(i) = {resp.refresh_token}
          /\ \E t \in oldLogin : t.sub = req.username /\ t.exp >= now
    /\ \E j \in DOMAIN users :
          lastLogin[users[j].username] = NoToken /\ AcceptedRefreshTokens(j) = {}

\* C23: request_email for an e-mail no stored user holds ends in an unhandled
\* error (500), with no message, no mail scheduled and the store unchanged.
C23_UnknownEmailFaults ==
    [][\A e \in Emails :
         (RequestEmail(e) /\ get_user_by_email(e) = 0) =>
            /\ resp' = Unhandled
            /\ resp'.status >= 500 /\ resp'.message = ""
            /\ eff' = Effects(0, 0)
            /\ outbox' = outbox
            /\ users' = users /\ contacts' = contacts /\ issued' = issued]_vars

\* the mail was requested for an address nobody holds while another address
\* is registered
C23_Witness ==
    /\ req.op = "request_email"
    /\ get_user_by_email(req.email) = 0
    /\ resp = Unhandled
    /\ users # <<>>

\* the month and day of the contact's birth date fall on a day of the window
\* of a request made now, in another year than that day's
AnniversaryOnly(c) ==
    /\ c.birth_date # -1
    /\ \E k \in 0..BirthdayWindowDays :
          /\ DayOfYear(c.birth_date) = DayOfYear(Today + k * SecondsPerDay)
          /\ YearOf(c.birth_date) # YearOf(Today + k * SecondsPerDay)

\* C24: GET /contacts/birthdays compares the stored birth date itself: a
\* contact whose month and day fall in the next 7 days in another year is not
\* returned, and across 31 December only birth dates that lie in
\* [today, today + 7 days] are returned.
C24_NoAnniversaryMatch ==
    [][(GetBirthdays(req'.token) /\ resp'.status = 200) =>
          /\ \A c \in contacts :
                (c.user_id = get_current_user(req'.token) /\ AnniversaryOnly(c)) =>
                    c \notin Listed(resp')
          /\ \A c \in Listed(resp') :
                /\ Today <= c.birth_date
                /\ c.birth_date <= Today + BirthdayWindowDays * SecondsPerDay]_vars

\* a request of 28 December returned the contact born on 2 January of the
\* coming year and not the user's contact born on 2 January a year earlier
C24_Witness ==
    /\ req.op = "get_birthdays" /\ resp.status = 200
    /\ YearOf(now) = 0
    /\ \E c \in Listed(resp) : YearOf(c.birth_date) = 1
    /\ \E c \in contacts :
          /\ c.user_id = get_current_user(req.token)
          /\ AnniversaryOnly(c)
          /\ c.birth_date < Today
          /\ c \notin Listed(resp)

\* what was done to the session of process p's request, in order, is what
\* the session manager prescribes for the state the request is in
SessionTraceOk(p) ==
    LET r == reg[p]
    IN /\ r.pc = "idle" =>
             /\ r.session \in {<<>>, <<"open", "close">>, <<"open", "rollback", "close">>}
             /\ r.session = <<"open", "rollback", "close">> <=> IsSQLAlchemyError(r.exc)
       /\ r.pc = "finally" =>
             /\ r.session = <<"open", "rollback">>
             /\ IsSQLAlchemyError(r.exc)
       /\ r.pc \notin {"idle", "finally"} => r.session = <<"open">>

\* C25: the session of a request is closed exactly once when the request
\* ends, whether the handler returned, raised a store error or raised
\* another exception, and not before; after a store error it is rolled back
\* first, the same error goes on and nothing of the failed operation is
\* stored; every session that was opened is closed.
C25_SessionClosedOnce ==
    /\ [](\A p \in Procs : SessionTraceOk(p))
    /\ [][\A p \in Procs :
            /\ (RegisterCreate(p) /\ IsSQLAlchemyError(reg'[p].exc)) =>
                   users' = users /\ outbox' = outbox /\ resp' = Unhandled
            /\ SessionExcept(p) =>
                   reg'[p].exc = reg[p].exc /\ users' = users /\ resp' = resp
            /\ SessionFinally(p) =>
                   reg'[p].exc = reg[p].exc /\ users' = users /\ resp' = resp]_vars
    /\ \A p \in Procs : (reg[p].pc # "idle") ~> (reg[p].pc = "idle")

\* one request lost the insert and its session was rolled back and closed,
\* the other returned and its session was closed
C25_Witness ==
    /\ \E p \in Procs :
          /\ reg[p].pc = "idle" /\ reg[p].exc = "IntegrityError"
          /\ reg[p].session = <<"open", "rollback", "close">>
    /\ \E q \in Procs :
          /\ reg[q].pc = "idle" /\ reg[q].exc = ""
          /\ reg[q].session = <<"open", "close">>
    /\ Len(users) = 1

\* C26: a register request that passed both look-ups and finds its e-mail
\* or username taken at the insert creates no user and is answered 409.
C26_RaceLoserConflict ==
    [][\A p \in Procs :
         (RegisterCreate(p) /\ ~UsersUniqueOk(reg[p].username, reg[p].email)) =>
            /\ users' = users
            /\ resp'.status = 409]_vars

\* C27: a login or token-refresh that is answered 401 writes nothing: users
\* (refresh token, confirmed flag and every other field) and contacts are
\* the same after the request as before it, and no commit is made.
C27_RefusedAuthWritesNothing ==
    [][((Login(req'.username, req'.password) \/ Refresh(req'.token))
          /\ resp'.status = 401) =>
            /\ users' = users
            /\ contacts' = contacts
            /\ eff' = Effects(0, 0)]_vars

\* a login with a wrong password was refused for a confirmed user who holds
\* a stored refresh token
C27_Witness ==
    /\ req.op = "login" /\ resp.status = 401
    /\ get_user_by_username(req.username) # 0
    /\ users[get_user_by_username(req.username)].confirmed
    /\ StoredRefreshToken(req.username) # NoToken
    /\ ~verify_password(req.password, users[get_user_by_username(req.username)].hashed_password)

\* t is a token create_email_token made (for t.sub, at t.iat)
IsEmailToken(t) == t.iat >= 0 /\ t = create_email_token(t.sub, t.iat)

\* C28: whenever a confirm-email request sets a user's confirmed flag, the
\* token it presented is one create_email_token issued for that user's
\* e-mail; an access token does not confirm anyone.
C28_ConfirmedOnlyByEmailToken ==
    [][\A i \in DOMAIN users :
         (ConfirmEmail(req'.token) /\ ~users[i].confirmed /\ users'[i].confirmed) =>
            /\ IsEmailToken(req'.token)
            /\ ~IsAccessToken(req'.token)
            /\ req'.token.sub = users[i].email]_vars

\* C29: every token handed out that get_current_user accepts is an access
\* token of a confirmed user and not an e-mail confirmation token, and a
\* request on an access-protected endpoint that succeeded presented such a
\* token.
C29_OnlyAccessTokensAuthenticate ==
    /\ \A t \in issued :
          get_current_user(t) > 0 =>
             /\ IsAccessToken(t)
             /\ ~IsEmailToken(t)
             /\ users[get_current_user(t)].confirmed
    /\ (req.op = "avatar" /\ resp.status = 200) =>
          IsAccessToken(req.token) /\ ~IsEmailToken(req.token)

\* the contacts user a owns
OwnContacts(a) == {c \in contacts : c.user_id = a}

\* C30: the answer to a user's create or update is the one the same request
\* gets from a store holding that user's contacts only: it is refused for
\* its e-mail only when another contact of the same user holds it, whatever
\* e-mails the contacts of other users hold.
C30_OthersContactsUnobservable ==
    [][LET a == get_current_user(req'.token)
           contact == get_contact_by_id(req'.cid, a)
       IN /\ \A body \in CreateBodies :
                (CreateContact(req'.token, body) /\ a > 0) =>
                   resp'.status =
                      IF body.email # "" /\ \E c \in OwnContacts(a) : c.email = body.email
                      THEN 500 ELSE 201
          /\ \A body \in UpdateBodies :
                (UpdateContact(req'.token, req'.cid, body) /\ a > 0 /\ contact # NoContact) =>
                   resp'.status =
                      IF \/ body.email # "" /\ \E c \in OwnContacts(a) :
                                                  c.id # req'.cid /\ c.email = body.email
                         \/ ~ContactSerializable(Updated(contact, body))
                      THEN 500 ELSE 200]_vars

====
